---- MODULE Spec2Model ----
(***************************************************************************)
(* A model of static/js/base.js, the page interaction layer of             *)
(* DoctorConnect: the handlers registered by the DOMContentLoaded callback *)
(* and the exported utilities.  Each component of the page is a group of   *)
(* variables with its own actions and its own specification; the host's    *)
(* clock (now) and its timer queues are shared.  Time is in milliseconds.  *)
(* A timer fires at the instant of its deadline and the clock never passes *)
(* a pending deadline; events of the same instant interleave freely.       *)
(***************************************************************************)
EXTENDS Integers, Sequences, FiniteSets, TLC

VARIABLES
    now,            \* the host clock, ms since page-ready
    last,           \* history: the event handled last [kind, id, flag]
    btnHTML,        \* button -> innerHTML
    btnLoading,     \* button -> classList.contains('loading')
    originalText,   \* button -> dataset.originalText
    btnTimers,      \* button -> deadlines of its pending restore timers
    btnClickAt,     \* history: button -> instant of the click that started loading
    probe,          \* one field handed to validateField: [type, required, value, result]
    fldConf,        \* form field -> [type, required, default, parent] (markup)
    fldValue,       \* form field -> field.value
    fldError,       \* form field -> classList.contains('error')
    errMsgs,        \* container -> its .error-message children, in document order
    banners,        \* the form's .form-success children, first child first
    formTimers,     \* deadlines of the form's pending reset timers
    formPosted,     \* number of submit events whose default action was not prevented
    present,        \* optional element -> whether the page has it
    navActive,      \* nav element -> classList.contains('active')
    navToggles,     \* history: toggle clicks since the last menu-link click
    scrollY,        \* window.pageYOffset
    headerScrolled, \* header.classList.contains('scrolled')
    lastScrollTop,  \* the header listener's lastScrollTop
    backVisible,    \* backToTopBtn.classList.contains('visible')
    heroShift,      \* translateY of the hero section, in half pixels
    pageThrew,      \* whether a handler has raised an uncaught error
    dbWait,         \* debounce: the wait argument
    dbTimeout,      \* debounce: the closure's timeout (a timer id, 0 undefined)
    dbTimers,       \* debounce: pending timers [id, deadline, args, call]
    dbCalls,        \* history: calls of the debounced function [at, args]
    dbInvoked,      \* history: invocations of func [at, args, call, calls]
    thLimit,        \* throttle: the limit argument
    inThrottle,     \* throttle: the closure's inThrottle
    thTimers,       \* throttle: deadlines of the pending release timers
    thCalls,        \* history: calls of the throttled function [at, args]
    thInvoked,      \* history: invocations of func [at, args, call]
    obsWatched,     \* observed element -> whether its observer still observes it
    obsHits,        \* history: element -> notifications that reported it intersecting
    obsFired,       \* history: element -> times its action has run
    cardClass,      \* the card's classList.contains('animate-fade-in-up')
    imgSrc,         \* the image's src
    imgLazy,        \* the image's classList.contains('lazy')
    stInitial,      \* the statistic's textContent at page-ready (markup)
    stText,         \* the statistic's textContent
    stAnims,        \* animateCounter closures [end, suffix, startTime, pending, ran]
    stNum           \* history: the number written last, Unwritten if none

vars == <<now, last, btnHTML, btnLoading, originalText, btnTimers, btnClickAt,
          probe, fldConf, fldValue, fldError, errMsgs, banners, formTimers,
          formPosted, present, navActive, navToggles, scrollY, headerScrolled,
          lastScrollTop, backVisible, heroShift, pageThrew, dbWait, dbTimeout,
          dbTimers, dbCalls, dbInvoked, thLimit, inThrottle, thTimers,
          thCalls, thInvoked, obsWatched, obsHits, obsFired, cardClass,
          imgSrc, imgLazy, stInitial, stText, stAnims, stNum>>

pageVars == <<present, navActive, navToggles, scrollY, headerScrolled, lastScrollTop,
              backVisible, heroShift, pageThrew>>

dbVars == <<dbWait, dbTimeout, dbTimers, dbCalls, dbInvoked>>

thVars == <<thLimit, inThrottle, thTimers, thCalls, thInvoked>>

obsVars == <<obsWatched, obsHits, obsFired, cardClass, imgSrc, imgLazy,
             stInitial, stText, stAnims, stNum>>

formVars == <<fldConf, fldValue, fldError, errMsgs, banners, formTimers, formPosted>>

btnVars == <<btnHTML, btnLoading, originalText, btnTimers, btnClickAt>>

----------------------------------------------------------------------------
(* Bounds *)

\* the clock runs over the instants 0, 1000, ..., MaxTicks * 1000
MaxTicks == 4

\* number of elements carrying the button style
NumButtons == 2

\* longest enumerated field value handed to validateField on its own
MaxLen == 4

\* number of fields (input, select, textarea) of the form
NumFields == 2

\* most .error-message elements the form may hold
MaxMessages == 2

\* most reset timers pending at once
MaxPending == 2

\* most calls of the debounced function
MaxCalls == 3

\* most notifications that report one element intersecting
MaxHits == 2

\* most clicks on the navigation toggle between two menu-link clicks
MaxToggles == 3

Instants == {k * 1000 : k \in 0..MaxTicks}

Fields == 1..NumFields

Buttons == 1..NumButtons

\* the markup a button may hold at page-ready time
Labels == {"", "Send"}

----------------------------------------------------------------------------
(* The host: clock and history *)

Event(kind, id, flag) == [kind |-> kind, id |-> id, flag |-> flag]

HostInit ==
    /\ now = 0
    /\ last = Event("ready", 0, FALSE)

\* deadlines of every timer pending anywhere on the page
PendingDeadlines ==
    UNION {{btnTimers[b][i] : i \in 1..Len(btnTimers[b])} : b \in Buttons}
        \cup {formTimers[i] : i \in 1..Len(formTimers)}
        \cup {t.deadline : t \in dbTimers}
        \cup {thTimers[i] : i \in 1..Len(thTimers)}

\* the clock moves to the next instant unless a timer is due before it
Advance ==
    /\ now + 1000 \in Instants
    /\ \A d \in PendingDeadlines : now + 1000 <= d
    /\ now' = now + 1000
    /\ last' = Event("tick", 0, FALSE)

----------------------------------------------------------------------------
(* Strings are sequences of one-character strings.  Field validation:      *)
(* base.js 143-181                                                         *)

\* characters matched by \s and removed by String.prototype.trim
WhiteSpace == {" ", "\t", "\n"}

Digit == {"0", "1", "2", "3", "4", "5", "6", "7", "8", "9"}

\* the characters field values are built from
Chars == WhiteSpace \cup Digit \cup {"@", ".", "a", "b", "+", "-", "(", ")"}

RECURSIVE TrimStart(_)
TrimStart(s) ==
    IF s # <<>> /\ Head(s) \in WhiteSpace THEN TrimStart(Tail(s)) ELSE s

RECURSIVE TrimEnd(_)
TrimEnd(s) ==
    IF s # <<>> /\ s[Len(s)] \in WhiteSpace
    THEN TrimEnd(SubSeq(s, 1, Len(s) - 1))
    ELSE s

\* String.prototype.trim (line 145)
Trim(s) == TrimEnd(TrimStart(s))

\* one quantified character class of a regular expression; max = -1 is
\* "no upper limit"
Atom(cls, min, max) == [cls |-> cls, min |-> min, max |-> max]

\* a backtracking match of the atoms pat[pi..] against s[si..], anchored at
\* the end of s (the pattern's $)
RECURSIVE MatchFrom(_, _, _, _)
MatchFrom(pat, pi, s, si) ==
    IF pi > Len(pat)
    THEN si = Len(s) + 1
    ELSE LET a    == pat[pi]
             room == Len(s) - si + 1
             hi   == IF a.max = -1 \/ a.max > room THEN room ELSE a.max
         IN  \E n \in a.min..hi :
                /\ \A j \in si..(si + n - 1) : s[j] \in a.cls
                /\ MatchFrom(pat, pi + 1, s, si + n)

\* RegExp.prototype.test for a pattern anchored with ^ and $
RegexTest(pat, s) == MatchFrom(pat, 1, s, 1)

\* /^[^\s@]+@[^\s@]+\.[^\s@]+$/ (line 164)
emailRegex ==
    LET other == Chars \ (WhiteSpace \cup {"@"})
    IN  <<Atom(other, 1, -1), Atom({"@"}, 1, 1), Atom(other, 1, -1),
          Atom({"."}, 1, 1), Atom(other, 1, -1)>>

\* /^[\+]?[1-9][\d]{0,15}$/ (line 173)
phoneRegex ==
    <<Atom({"+"}, 0, 1), Atom(Digit \ {"0"}, 1, 1), Atom(Digit, 0, 15)>>

\* value.replace(/[\s\-\(\)]/g, '') (line 174)
StripPhone(s) ==
    SelectSeq(s, LAMBDA c : c \notin (WhiteSpace \cup {"-", "(", ")"}))

NoError == "ok"

RequiredMessage == "This field is required"

EmailMessage == "Please enter a valid email address"

PhoneMessage == "Please enter a valid phone number"

\* validateField with the email rule not guarded by a non-empty value
FieldErrorEmailUnguarded(type, required, raw) ==
    LET value == Trim(raw)
    IN  IF required /\ value = <<>> THEN RequiredMessage
        ELSE IF type = "email" /\ ~RegexTest(emailRegex, value)
             THEN EmailMessage
        ELSE IF type = "tel" /\ value # <<>>
                   /\ ~RegexTest(phoneRegex, StripPhone(value))
             THEN PhoneMessage
        ELSE NoError

\* validateField with the phone rule guarded by the stripped value
FieldErrorStrippedGuard(type, required, raw) ==
    LET value == Trim(raw)
    IN  IF required /\ value = <<>> THEN RequiredMessage
        ELSE IF type = "email" /\ value # <<>> /\ ~RegexTest(emailRegex, value)
             THEN EmailMessage
        ELSE IF type = "tel" /\ StripPhone(value) # <<>>
                   /\ ~RegexTest(phoneRegex, StripPhone(value))
             THEN PhoneMessage
        ELSE NoError

\* the checks of validateField (145-147, 156-180): the message handed to
\* showFieldError, or NoError where validateField returns true
FieldError(type, required, raw) ==
    LET value == Trim(raw)
    IN  IF required /\ value = <<>> THEN RequiredMessage
        ELSE IF type = "email" /\ value # <<>> /\ ~RegexTest(emailRegex, value)
             THEN EmailMessage
        ELSE IF type = "tel" /\ value # <<>>
                   /\ ~RegexTest(phoneRegex, StripPhone(value))
             THEN PhoneMessage
        ELSE NoError

----------------------------------------------------------------------------
(* validateField on one field, over enumerated values *)

SeqsUpTo(A, n) == UNION {[1..k -> A] : k \in 0..n}

Repeat(c, n) == [i \in 1..n |-> c]

\* field.value as the host hands it over (line 145): the value of an
\* <input type="email"> has its leading and trailing whitespace stripped by
\* the host's value sanitization; other types keep theirs
HostValue(type, typed) == IF type = "email" THEN Trim(typed) ELSE typed

EmailInputs ==
    {HostValue("email", s) : s \in SeqsUpTo({" ", "@", ".", "a"}, MaxLen + 1)}

\* 16 and 17 digits, with and without the leading plus
LongPhones ==
    {<<"1">> \o Repeat("0", 15), <<"1">> \o Repeat("0", 16),
     <<"+", "1">> \o Repeat("0", 15), <<"+", "1">> \o Repeat("0", 16),
     <<"(", "1">> \o Repeat("0", 15) \o <<")">>}

PhoneInputs == SeqsUpTo({" ", "-", "(", ")", "+", "0", "1"}, MaxLen) \cup LongPhones

TextInputs == SeqsUpTo({" ", "a"}, MaxLen)

InputsOf(type) ==
    IF type = "email" THEN EmailInputs
    ELSE IF type = "tel" THEN PhoneInputs
    ELSE TextInputs

FieldTypes == {"text", "email", "tel"}

ProbeInit ==
    \E t \in FieldTypes, r \in BOOLEAN :
        \E v \in InputsOf(t) :
            probe = [type |-> t, required |-> r, value |-> v, result |-> "unset"]

ProbeIdle ==
    probe = [type |-> "text", required |-> FALSE, value |-> <<>>, result |-> "unset"]

\* one call of validateField(field)
ProbeValidate ==
    /\ probe.result = "unset"
    /\ probe' = [probe EXCEPT !.result = FieldError(probe.type, probe.required, probe.value)]
    /\ last' = Event("validate", 0, probe'.result = NoError)
    /\ UNCHANGED <<now, btnVars, formVars, pageVars, dbVars, thVars, obsVars>>

----------------------------------------------------------------------------
(* Buttons: base.js 246-269 *)

\* innerHTML written on entering the loading state (line 252)
Spinner == "<i class=\"fas fa-spinner fa-spin\"></i> Loading..."

\* setTimeout delay of the restore callback (line 261)
ButtonDelay == 2000

\* JavaScript truthiness of a string
Truthy(s) == s # ""

\* state after the two buttons.forEach passes at page-ready (247-269):
\* listeners attached, then dataset.originalText = innerHTML
ButtonInit ==
    /\ btnHTML \in [Buttons -> Labels]
    /\ btnLoading = [b \in Buttons |-> FALSE]
    /\ originalText = btnHTML
    /\ btnTimers = [b \in Buttons |-> <<>>]
    /\ btnClickAt = [b \in Buttons |-> -1]

ButtonIdle ==
    /\ btnHTML = [b \in Buttons |-> "Send"]
    /\ btnLoading = [b \in Buttons |-> FALSE]
    /\ originalText = btnHTML
    /\ btnTimers = [b \in Buttons |-> <<>>]
    /\ btnClickAt = [b \in Buttons |-> -1]

\* a click handler that lacks the 'loading' guard of line 250
ButtonClickUnguarded(b) ==
    /\ now + ButtonDelay \in Instants
    /\ btnLoading' = [btnLoading EXCEPT ![b] = TRUE]
    /\ btnHTML' = [btnHTML EXCEPT ![b] = Spinner]
    /\ btnTimers' = [btnTimers EXCEPT ![b] = Append(@, now + ButtonDelay)]
    /\ btnClickAt' = [btnClickAt EXCEPT ![b] = now]
    /\ last' = Event("click", b, btnLoading[b])
    /\ UNCHANGED <<now, originalText>>

\* the click listener (249-263)
ButtonClick(b) ==
    /\ now + ButtonDelay \in Instants
    /\ IF ~btnLoading[b]
       THEN /\ btnLoading' = [btnLoading EXCEPT ![b] = TRUE]
            /\ btnHTML' = [btnHTML EXCEPT ![b] = Spinner]
            /\ btnTimers' = [btnTimers EXCEPT ![b] = Append(@, now + ButtonDelay)]
            /\ btnClickAt' = [btnClickAt EXCEPT ![b] = now]
       ELSE UNCHANGED <<btnLoading, btnHTML, btnTimers, btnClickAt>>
    /\ last' = Event("click", b, btnLoading[b])
    /\ UNCHANGED <<now, originalText>>

\* the restore callback (255-261)
ButtonRestore(b) ==
    /\ btnTimers[b] # <<>>
    /\ Head(btnTimers[b]) = now
    /\ btnTimers' = [btnTimers EXCEPT ![b] = Tail(@)]
    /\ btnLoading' = [btnLoading EXCEPT ![b] = FALSE]
    /\ btnHTML' = [btnHTML EXCEPT ![b] =
                      IF Truthy(originalText[b]) THEN originalText[b] ELSE @]
    /\ last' = Event("restore", b, FALSE)
    /\ UNCHANGED <<now, originalText, btnClickAt>>

notButtonVars == <<probe, formVars, pageVars, dbVars, thVars, obsVars>>

ButtonNext ==
    \/ \E b \in Buttons : ButtonClick(b) /\ UNCHANGED notButtonVars
    \/ \E b \in Buttons : ButtonRestore(b) /\ UNCHANGED notButtonVars
    \/ Advance /\ UNCHANGED <<btnVars, notButtonVars>>

----------------------------------------------------------------------------
(* The form: base.js 105-229.  The form element is container 0; containers *)
(* 1 is a wrapper element (a form group), a child of the form.  Fields     *)
(* stand in document order; a field's parentElement is the form itself or  *)
(* the wrapper.  Error messages are appended to the parent, so those of    *)
(* the form itself follow the wrapper in document order.                   *)

Groups == {1}

Containers == {0} \cup Groups

\* setTimeout delay of the reset callback (line 138)
FormDelay == 3000

ValidEmail == <<"a", "@", "a", ".", "a">>

\* the form's markup, field by field: type, required attribute and default
\* value (a contact form: name, email, phone); longer forms repeat it
FormMarkup ==
    <<[type |-> "text", required |-> TRUE, default |-> <<>>],
      [type |-> "email", required |-> FALSE, default |-> ValidEmail],
      [type |-> "tel", required |-> FALSE, default |-> <<>>]>>

MarkupOf(f) == FormMarkup[((f - 1) % Len(FormMarkup)) + 1]

\* what the user may type into a field of the type
FormInputs(type) ==
    IF type = "email" THEN {<<>>, <<"a">>, ValidEmail}
    ELSE IF type = "tel" THEN {<<>>, <<"(", ")">>, <<"1">>}
    ELSE {<<>>, <<"a">>}

\* the fields of a wrapper are neighbours in the document
LayoutOk(conf) ==
    \A i, j, k \in Fields :
        (i < j /\ j < k /\ conf[i].parent = conf[k].parent /\ conf[i].parent # 0)
            => conf[j].parent = conf[i].parent

FieldConf(f, c) ==
    [type |-> MarkupOf(f).type, required |-> MarkupOf(f).required,
     default |-> MarkupOf(f).default, parent |-> c]

FormConfs ==
    {conf \in [Fields -> UNION {{FieldConf(f, c) : c \in Containers} : f \in Fields}] :
        /\ \A f \in Fields : conf[f] = FieldConf(f, conf[f].parent)
        /\ LayoutOk(conf)}

\* state after forms.forEach at page-ready (106-141): listeners attached,
\* every field at its default value, no decoration
FormInit ==
    /\ fldConf \in FormConfs
    /\ fldValue = [f \in Fields |-> fldConf[f].default]
    /\ fldError = [f \in Fields |-> FALSE]
    /\ errMsgs = [c \in Containers |-> <<>>]
    /\ banners = <<>>
    /\ formTimers = <<>>
    /\ formPosted = 0

FormIdle ==
    /\ fldConf = [f \in Fields |-> FieldConf(f, 0)]
    /\ fldValue = [f \in Fields |-> fldConf[f].default]
    /\ fldError = [f \in Fields |-> FALSE]
    /\ errMsgs = [c \in Containers |-> <<>>]
    /\ banners = <<>>
    /\ formTimers = <<>>
    /\ formPosted = 0

\* the containers searched by container.querySelector, in document order
Subtree(c) == IF c = 0 THEN <<1, 0>> ELSE <<c>>

\* parentElement.querySelector('.error-message') and existingError.remove()
\* (151-154): the first message of the parent's subtree goes
RemoveFirstError(msgs, c) ==
    LET order == Subtree(c)
        hits  == {k \in 1..Len(order) : msgs[order[k]] # <<>>}
    IN  IF hits = {}
        THEN msgs
        ELSE LET k == CHOOSE x \in hits : \A y \in hits : x <= y
             IN  [msgs EXCEPT ![order[k]] = Tail(@)]

\* showFieldError (184-193)
showFieldError(dom, f, message) ==
    [dom EXCEPT !.err[f] = TRUE,
                !.msgs[fldConf[f].parent] =
                    Append(@, [owner |-> f, text |-> message])]

\* validateField (144-181) on the decoration dom = [err, msgs, ok]; ok
\* gathers the return values as validateForm does (201-203)
validateField(dom, f, raw) ==
    LET cleared == [dom EXCEPT !.err[f] = FALSE,
                               !.msgs = RemoveFirstError(dom.msgs, fldConf[f].parent)]
        e == FieldError(fldConf[f].type, fldConf[f].required, raw)
    IN  IF e = NoError
        THEN cleared
        ELSE [showFieldError(cleared, f, e) EXCEPT !.ok = FALSE]

\* a validateForm that stops at the first field that fails
RECURSIVE validateUntilFailure(_, _)
validateUntilFailure(dom, f) ==
    IF f > NumFields \/ ~dom.ok
    THEN dom
    ELSE validateUntilFailure(validateField(dom, f, fldValue[f]), f + 1)

\* validateForm (196-207): every field in document order
RECURSIVE validateFrom(_, _)
validateFrom(dom, f) ==
    IF f > NumFields
    THEN dom
    ELSE validateFrom(validateField(dom, f, fldValue[f]), f + 1)

validateForm == validateFrom([err |-> fldError, msgs |-> errMsgs, ok |-> TRUE], 1)

MessageCount(msgs) == Len(msgs[0]) + Len(msgs[1])

\* the input listener (121-123), after the user has changed the value to v
FieldInput(f, v) ==
    /\ v \in FormInputs(fldConf[f].type)
    /\ LET dom == validateField([err |-> fldError, msgs |-> errMsgs, ok |-> TRUE], f, v)
       IN  /\ MessageCount(dom.msgs) <= MaxMessages
           /\ fldError' = dom.err
           /\ errMsgs' = dom.msgs
           /\ last' = Event("input", f, dom.ok)
    /\ fldValue' = [fldValue EXCEPT ![f] = v]
    /\ UNCHANGED <<now, fldConf, banners, formTimers, formPosted>>

\* a submit listener that shows success without looking at validateForm's
\* verdict
FormSubmitUnchecked ==
    /\ now + FormDelay \in Instants
    /\ Len(formTimers) < MaxPending
    /\ LET dom == validateForm
       IN  /\ MessageCount(dom.msgs) <= MaxMessages
           /\ fldError' = dom.err
           /\ errMsgs' = dom.msgs
           /\ last' = Event("submit", 0, dom.ok)
           /\ banners' = <<now>> \o banners
           /\ formTimers' = Append(formTimers, now + FormDelay)
    /\ UNCHANGED <<now, fldConf, fldValue, formPosted>>

\* the submit listener (127-140): preventDefault, validateForm, and on
\* success showFormSuccess (210-221) and the reset timer
FormSubmit ==
    /\ LET dom == validateForm
       IN  /\ MessageCount(dom.msgs) <= MaxMessages
           /\ dom.ok => /\ now + FormDelay \in Instants
                        /\ Len(formTimers) < MaxPending
           /\ fldError' = dom.err
           /\ errMsgs' = dom.msgs
           /\ last' = Event("submit", 0, dom.ok)
           /\ IF dom.ok
              THEN /\ banners' = <<now>> \o banners
                   /\ formTimers' = Append(formTimers, now + FormDelay)
              ELSE UNCHANGED <<banners, formTimers>>
    /\ UNCHANGED <<now, fldConf, fldValue, formPosted>>

\* a reset callback without hideFormSuccess
FormResetKeepsBanner ==
    /\ formTimers # <<>>
    /\ Head(formTimers) = now
    /\ formTimers' = Tail(formTimers)
    /\ fldValue' = [f \in Fields |-> fldConf[f].default]
    /\ banners' = banners
    /\ last' = Event("formReset", 0, FALSE)
    /\ UNCHANGED <<now, fldConf, fldError, errMsgs, formPosted>>

\* the reset callback (135-138): form.reset() and hideFormSuccess (224-229)
FormReset ==
    /\ formTimers # <<>>
    /\ Head(formTimers) = now
    /\ formTimers' = Tail(formTimers)
    /\ fldValue' = [f \in Fields |-> fldConf[f].default]
    /\ banners' = IF banners # <<>> THEN Tail(banners) ELSE banners
    /\ last' = Event("formReset", 0, FALSE)
    /\ UNCHANGED <<now, fldConf, fldError, errMsgs, formPosted>>

notFormVars == <<btnVars, probe, pageVars, dbVars, thVars, obsVars>>

\* the reset timers fire
FormResets == FormReset /\ UNCHANGED notFormVars

\* the clock of the form's page
FormClock == Advance /\ UNCHANGED <<formVars, notFormVars>>

FormNext ==
    \/ \E f \in Fields : \E v \in FormInputs(fldConf[f].type) :
          FieldInput(f, v) /\ UNCHANGED notFormVars
    \/ FormSubmit /\ UNCHANGED notFormVars
    \/ FormResets
    \/ FormClock

----------------------------------------------------------------------------
(* Navigation, header, back-to-top, anchors, parallax: base.js 4-82 and    *)
(* 271-279                                                                 *)

Optional == {"navToggle", "navMenu", "header", "backToTop"}

\* the scroll offsets the viewport is moved to: around the two thresholds
ScrollOffsets == {0, 50, 51, 300, 301}

\* scrollTop > 50 (line 32)
HeaderThreshold == 50

\* window.pageYOffset > 300 (line 46)
BackToTopThreshold == 300

\* headerHeight when the page has no header (line 73)
FallbackHeaderHeight == 80

\* header.offsetHeight of a header that exists
HeaderOffsetHeight == 80

\* state after lines 4-82 and 271-279 at page-ready: nothing is read from an
\* absent element there, the listeners are attached
PageInit ==
    /\ present \in [Optional -> BOOLEAN]
    /\ navActive = [e \in {"navToggle", "navMenu"} |-> FALSE]
    /\ navToggles = 0
    /\ scrollY = 0
    /\ headerScrolled = FALSE
    /\ lastScrollTop = 0
    /\ backVisible = FALSE
    /\ heroShift = 0
    /\ pageThrew = FALSE

PageIdle ==
    /\ present = [e \in Optional |-> TRUE]
    /\ navActive = [e \in {"navToggle", "navMenu"} |-> FALSE]
    /\ navToggles = 0
    /\ scrollY = 0
    /\ headerScrolled = FALSE
    /\ lastScrollTop = 0
    /\ backVisible = FALSE
    /\ heroShift = 0
    /\ pageThrew = FALSE

\* the listeners of lines 9-21 exist only if both elements do (line 8)
NavWired == present["navToggle"] /\ present["navMenu"]

\* a click on the toggle (9-12)
NavToggleClick ==
    /\ present["navToggle"]
    /\ navToggles < MaxToggles
    /\ navActive' = IF NavWired
                    THEN [e \in {"navToggle", "navMenu"} |-> ~navActive[e]]
                    ELSE navActive
    /\ navToggles' = navToggles + 1
    /\ last' = Event("navToggle", 0, NavWired)
    /\ UNCHANGED <<now, present, scrollY, headerScrolled, lastScrollTop,
                   backVisible, heroShift, pageThrew>>

\* a link listener that toggles the class instead of removing it
NavLinkClickToggles ==
    /\ present["navMenu"]
    /\ navActive' = IF NavWired
                    THEN [e \in {"navToggle", "navMenu"} |-> ~navActive[e]]
                    ELSE navActive
    /\ navToggles' = 0
    /\ last' = Event("navLink", 0, NavWired)
    /\ UNCHANGED <<now, present, scrollY, headerScrolled, lastScrollTop,
                   backVisible, heroShift, pageThrew>>

\* a click on a .nav-link inside the menu (17-20)
NavLinkClick ==
    /\ present["navMenu"]
    /\ navActive' = IF NavWired
                    THEN [e \in {"navToggle", "navMenu"} |-> FALSE]
                    ELSE navActive
    /\ navToggles' = 0
    /\ last' = Event("navLink", 0, NavWired)
    /\ UNCHANGED <<now, present, scrollY, headerScrolled, lastScrollTop,
                   backVisible, heroShift, pageThrew>>

\* the header scroll listener (28-39): header.classList of an absent header
\* raises a TypeError before lastScrollTop is written
HeaderListener(s) ==
    IF present["header"]
    THEN /\ headerScrolled' = (s > HeaderThreshold)
         /\ lastScrollTop' = s
         /\ pageThrew' = pageThrew
    ELSE /\ pageThrew' = TRUE
         /\ UNCHANGED <<headerScrolled, lastScrollTop>>

\* the back-to-top listener with >= for the > of line 46
BackToTopListenerInclusive(s) ==
    backVisible' = IF present["backToTop"] THEN s >= BackToTopThreshold ELSE backVisible

\* the back-to-top scroll listener (45-51), attached only if the control
\* exists (line 44)
BackToTopListener(s) ==
    backVisible' = IF present["backToTop"] THEN s > BackToTopThreshold ELSE backVisible

\* the parallax listener (274-278): translateY(scrolled * -0.5)
ParallaxListener(s) == heroShift' = 0 - s

\* a scroll event with the viewport at offset s: every scroll listener runs,
\* an error in one does not stop the next
ScrollTo(s) ==
    /\ scrollY' = s
    /\ HeaderListener(s)
    /\ BackToTopListener(s)
    /\ ParallaxListener(s)
    /\ UNCHANGED <<now, present, navActive, navToggles>>

Scroll(s) == ScrollTo(s) /\ last' = Event("scroll", s, FALSE)

\* a click on the back-to-top control (53-58): window.scrollTo top 0
BackToTopClick ==
    /\ present["backToTop"]
    /\ ScrollTo(0)
    /\ last' = Event("backToTop", 0, FALSE)

\* a click on an anchor whose target exists at offsetTop top (64-81)
AnchorClick(top) ==
    LET headerHeight == IF present["header"] THEN HeaderOffsetHeight
                        ELSE FallbackHeaderHeight
        targetPosition == top - headerHeight
    IN  /\ ScrollTo(IF targetPosition < 0 THEN 0 ELSE targetPosition)
        /\ last' = Event("anchor", top, FALSE)

notPageVars == <<btnVars, probe, formVars, dbVars, thVars, obsVars>>

\* offsetTop of the elements anchors point to
AnchorTargets == {s + FallbackHeaderHeight : s \in ScrollOffsets}

PageNext ==
    \/ NavToggleClick /\ UNCHANGED notPageVars
    \/ NavLinkClick /\ UNCHANGED notPageVars
    \/ \E s \in ScrollOffsets : Scroll(s) /\ UNCHANGED notPageVars
    \/ BackToTopClick /\ UNCHANGED notPageVars
    \/ \E top \in AnchorTargets : AnchorClick(top) /\ UNCHANGED notPageVars

----------------------------------------------------------------------------
(* debounce: base.js 354-364 *)

\* the wait arguments tried
Waits == {1000, 2000}

\* the arguments the debounced function is called with
Args == {"x", "y"}

DebounceInit ==
    /\ dbWait \in Waits
    /\ dbTimeout = 0
    /\ dbTimers = {}
    /\ dbCalls = <<>>
    /\ dbInvoked = <<>>

DebounceIdle ==
    /\ dbWait = 1000
    /\ dbTimeout = 0
    /\ dbTimers = {}
    /\ dbCalls = <<>>
    /\ dbInvoked = <<>>

\* clearTimeout(id): the pending timer of that id, if any, is dropped
ClearTimeout(timers, id) == {t \in timers : t.id # id}

\* executedFunction without the clearTimeout of line 361
DebounceCallNoClear(a) ==
    /\ Len(dbCalls) < MaxCalls
    /\ now + dbWait \in Instants
    /\ dbCalls' = Append(dbCalls, [at |-> now, args |-> a])
    /\ dbTimeout' = Len(dbCalls) + 1
    /\ dbTimers' = dbTimers \cup
                     {[id |-> Len(dbCalls) + 1, deadline |-> now + dbWait,
                       args |-> a, call |-> Len(dbCalls) + 1]}
    /\ last' = Event("call", Len(dbCalls) + 1, FALSE)
    /\ UNCHANGED <<now, dbWait, dbInvoked>>

\* executedFunction(...args) (356-363): the pending timer is cleared and a
\* new one, the n-th setTimeout of the page, is set for later
DebounceCall(a) ==
    /\ Len(dbCalls) < MaxCalls
    /\ now + dbWait \in Instants
    /\ dbCalls' = Append(dbCalls, [at |-> now, args |-> a])
    /\ dbTimeout' = Len(dbCalls) + 1
    /\ dbTimers' = ClearTimeout(dbTimers, dbTimeout) \cup
                     {[id |-> Len(dbCalls) + 1, deadline |-> now + dbWait,
                       args |-> a, call |-> Len(dbCalls) + 1]}
    /\ last' = Event("call", Len(dbCalls) + 1, FALSE)
    /\ UNCHANGED <<now, dbWait, dbInvoked>>

\* later (357-360) run by the timer t at its deadline
DebounceLater(t) ==
    /\ t \in dbTimers
    /\ t.deadline = now
    /\ dbTimers' = ClearTimeout(dbTimers \ {t}, dbTimeout)
    /\ dbInvoked' = Append(dbInvoked, [at |-> now, args |-> t.args, call |-> t.call,
                                      calls |-> Len(dbCalls)])
    /\ last' = Event("later", t.call, FALSE)
    /\ UNCHANGED <<now, dbWait, dbTimeout, dbCalls>>

notDebounceVars == <<btnVars, probe, formVars, pageVars, thVars, obsVars>>

DebounceNext ==
    \/ \E a \in Args : DebounceCall(a) /\ UNCHANGED notDebounceVars
    \/ \E t \in dbTimers : DebounceLater(t) /\ UNCHANGED notDebounceVars
    \/ Advance /\ UNCHANGED <<dbVars, notDebounceVars>>

----------------------------------------------------------------------------
(* throttle: base.js 366-377 *)

\* the limit arguments tried
Limits == {1000, 2000}

\* inThrottle starts undefined, which the guard of line 371 reads as false
ThrottleInit ==
    /\ thLimit \in Limits
    /\ inThrottle = FALSE
    /\ thTimers = <<>>
    /\ thCalls = <<>>
    /\ thInvoked = <<>>

ThrottleIdle ==
    /\ thLimit = 1000
    /\ inThrottle = FALSE
    /\ thTimers = <<>>
    /\ thCalls = <<>>
    /\ thInvoked = <<>>

\* the returned function without the assignment of line 373
ThrottleCallNoFlag(a) ==
    /\ Len(thCalls) < MaxCalls
    /\ inThrottle \/ now + thLimit \in Instants
    /\ thCalls' = Append(thCalls, [at |-> now, args |-> a])
    /\ IF ~inThrottle
       THEN /\ thInvoked' = Append(thInvoked, [at |-> now, args |-> a,
                                               call |-> Len(thCalls) + 1])
            /\ inThrottle' = inThrottle
            /\ thTimers' = Append(thTimers, now + thLimit)
       ELSE UNCHANGED <<thInvoked, inThrottle, thTimers>>
    /\ last' = Event("throttled", Len(thCalls) + 1, ~inThrottle)
    /\ UNCHANGED <<now, thLimit>>

\* the returned function (368-376): outside the throttle func is applied to
\* the call's arguments, the flag is raised and a release timer is set;
\* inside it the call does nothing
ThrottleCall(a) ==
    /\ Len(thCalls) < MaxCalls
    /\ inThrottle \/ now + thLimit \in Instants
    /\ thCalls' = Append(thCalls, [at |-> now, args |-> a])
    /\ IF ~inThrottle
       THEN /\ thInvoked' = Append(thInvoked, [at |-> now, args |-> a,
                                               call |-> Len(thCalls) + 1])
            /\ inThrottle' = TRUE
            /\ thTimers' = Append(thTimers, now + thLimit)
       ELSE UNCHANGED <<thInvoked, inThrottle, thTimers>>
    /\ last' = Event("throttled", Len(thCalls) + 1, ~inThrottle)
    /\ UNCHANGED <<now, thLimit>>

\* the release timer's callback (374) at its deadline
ThrottleRelease ==
    /\ thTimers # <<>>
    /\ Head(thTimers) = now
    /\ thTimers' = Tail(thTimers)
    /\ inThrottle' = FALSE
    /\ last' = Event("release", 0, FALSE)
    /\ UNCHANGED <<now, thLimit, thCalls, thInvoked>>

notThrottleVars == <<btnVars, probe, formVars, pageVars, dbVars, obsVars>>

ThrottleNext ==
    \/ \E a \in Args : ThrottleCall(a) /\ UNCHANGED notThrottleVars
    \/ ThrottleRelease /\ UNCHANGED notThrottleVars
    \/ Advance /\ UNCHANGED <<thVars, notThrottleVars>>

----------------------------------------------------------------------------
(* Intersection observers and the counter animation: base.js 84-103,       *)
(* 231-244 and 281-315.  One element stands for each observer's targets: a  *)
(* content card, a deferred-source image, a statistic.  The host delivers   *)
(* an entry for a target only while its observer observes it.               *)

Watched == {"card", "img", "stat"}

\* the deferred source of the image (img.dataset.src)
DataSrc == "photo.jpg"

\* the src attributes the markup may give the image
Placeholders == {"", "blank.gif"}

\* the texts the markup may give the statistic
StatTexts ==
    {<<"3", "+">>, <<"1", "2">>, <<"0", "7", "%">>, <<"+">>, <<"1", ",", "5">>, <<>>}

duration == 2000

\* the result of parseInt on a string without digits; no arithmetic of the
\* model yields it otherwise
NaN == -1

\* animateCounter's start argument (290)
CounterStart == 0

\* stNum before any number has been written
Unwritten == -2

DigitChars == <<"0", "1", "2", "3", "4", "5", "6", "7", "8", "9">>

DigitValue(c) == (CHOOSE i \in 1..Len(DigitChars) : DigitChars[i] = c) - 1

IsDigit(c) == c \in Digit

IsNonDigit(c) == c \notin Digit

\* text.replace(/\D/g, '')
StripNonDigits(text) == SelectSeq(text, IsDigit)

\* text.replace(/\d/g, '')
StripDigits(text) == SelectSeq(text, IsNonDigit)

\* parseInt of a string of decimal digits
RECURSIVE ParseInt(_)
ParseInt(s) ==
    IF s = <<>> THEN NaN
    ELSE IF Len(s) = 1 THEN DigitValue(s[1])
    ELSE ParseInt(SubSeq(s, 1, Len(s) - 1)) * Len(DigitChars) + DigitValue(s[Len(s)])

\* the string a number turns into when a string is appended to it
RECURSIVE NumberToString(_)
NumberToString(n) ==
    IF n = NaN THEN <<"N", "a", "N">>
    ELSE IF n < Len(DigitChars) THEN <<DigitChars[n + 1]>>
    ELSE NumberToString(n \div Len(DigitChars)) \o <<DigitChars[(n % Len(DigitChars)) + 1]>>

Min(a, b) == IF a <= b THEN a ELSE b

\* lines 304 and 306 without the Math.min of line 304
CurrentUnclamped(start, end, elapsed) ==
    IF end = NaN THEN NaN
    ELSE (start * duration + (end - start) * elapsed) \div duration

\* lines 304 and 306: Math.floor(start + (end - start) * progress) with
\* progress = Math.min(elapsed / duration, 1)
Current(start, end, elapsed) ==
    IF end = NaN THEN NaN
    ELSE (start * duration + (end - start) * Min(elapsed, duration)) \div duration

ObserveInit ==
    /\ obsWatched = [x \in Watched |-> TRUE]
    /\ obsHits = [x \in Watched |-> 0]
    /\ obsFired = [x \in Watched |-> 0]
    /\ cardClass = FALSE
    /\ imgSrc \in Placeholders
    /\ imgLazy = TRUE
    /\ stInitial \in StatTexts
    /\ stText = stInitial
    /\ stAnims = <<>>
    /\ stNum = Unwritten

ObserveIdle ==
    /\ obsWatched = [x \in Watched |-> TRUE]
    /\ obsHits = [x \in Watched |-> 0]
    /\ obsFired = [x \in Watched |-> 0]
    /\ cardClass = FALSE
    /\ imgSrc = ""
    /\ imgLazy = TRUE
    /\ stInitial = <<>>
    /\ stText = <<>>
    /\ stAnims = <<>>
    /\ stNum = Unwritten

\* animateCounter(element, start, end, suffix) (298-315): the closure and
\* its first frame request
animateCounter(end, suffix) ==
    Append(stAnims, [end |-> end, suffix |-> suffix, startTime |-> now,
                     pending |-> TRUE, ran |-> Unwritten])

\* what an observer's callback does to an intersecting target, but for the
\* unobserve
Act(x) ==
    /\ cardClass' = IF x = "card" THEN TRUE ELSE cardClass
    /\ imgSrc' = IF x = "img" THEN DataSrc ELSE imgSrc
    /\ imgLazy' = IF x = "img" THEN FALSE ELSE imgLazy
    /\ stAnims' = IF x = "stat"
                  THEN animateCounter(ParseInt(StripNonDigits(stText)),
                                      StripDigits(stText))
                  ELSE stAnims
    /\ obsFired' = [obsFired EXCEPT ![x] = @ + 1]

\* an observer callback without its unobserve (94, 239, 291)
IntersectionKeepObserving(x, isIntersecting) ==
    /\ obsWatched[x]
    /\ isIntersecting => /\ obsHits[x] < MaxHits
                         /\ now + duration <= MaxTicks * 1000
    /\ IF isIntersecting
       THEN /\ Act(x)
            /\ obsHits' = [obsHits EXCEPT ![x] = @ + 1]
            /\ obsWatched' = obsWatched
       ELSE UNCHANGED <<obsWatched, obsHits, obsFired, cardClass, imgSrc, imgLazy,
                        stAnims>>
    /\ last' = Event(x, 0, isIntersecting)
    /\ UNCHANGED <<now, stInitial, stText, stNum>>

\* an observer callback with one entry, for the target x (90-97, 233-242,
\* 283-294): an intersecting target gets its action and is unobserved
Intersection(x, isIntersecting) ==
    /\ obsWatched[x]
    /\ isIntersecting => /\ obsHits[x] < MaxHits
                         /\ now + duration <= MaxTicks * 1000
    /\ IF isIntersecting
       THEN /\ Act(x)
            /\ obsHits' = [obsHits EXCEPT ![x] = @ + 1]
            /\ obsWatched' = [obsWatched EXCEPT ![x] = FALSE]
       ELSE UNCHANGED <<obsWatched, obsHits, obsFired, cardClass, imgSrc, imgLazy,
                        stAnims>>
    /\ last' = Event(x, 0, isIntersecting)
    /\ UNCHANGED <<now, stInitial, stText, stNum>>

\* updateCounter without the test of line 309
updateCounterForever(i) ==
    /\ i \in 1..Len(stAnims)
    /\ stAnims[i].pending
    /\ LET a == stAnims[i]
           elapsed == now - a.startTime
           current == Current(CounterStart, a.end, elapsed)
       IN  /\ stText' = NumberToString(current) \o a.suffix
           /\ stNum' = current
           /\ stAnims' = [stAnims EXCEPT ![i].pending = TRUE, ![i].ran = elapsed]
    /\ last' = Event("frame", i, FALSE)
    /\ UNCHANGED <<now, obsWatched, obsHits, obsFired, cardClass, imgSrc, imgLazy,
                   stInitial>>

\* updateCounter(currentTime) (302-312), the frame callback of the i-th
\* closure, run by the host with the current time
updateCounter(i) ==
    /\ i \in 1..Len(stAnims)
    /\ stAnims[i].pending
    /\ LET a == stAnims[i]
           elapsed == now - a.startTime
           current == Current(CounterStart, a.end, elapsed)
       IN  /\ stText' = NumberToString(current) \o a.suffix
           /\ stNum' = current
           /\ stAnims' = [stAnims EXCEPT ![i].pending = (elapsed < duration),
                                         ![i].ran = elapsed]
    /\ last' = Event("frame", i, FALSE)
    /\ UNCHANGED <<now, obsWatched, obsHits, obsFired, cardClass, imgSrc, imgLazy,
                   stInitial>>

\* the time between two events of the host, ms
Gaps == {400, 1000}

\* the clock moves on by d ms, up to its last instant
Elapse(d) ==
    /\ now < MaxTicks * 1000
    /\ \A t \in PendingDeadlines : Min(now + d, MaxTicks * 1000) <= t
    /\ now' = Min(now + d, MaxTicks * 1000)
    /\ last' = Event("tick", 0, FALSE)

notObserveVars == <<btnVars, probe, formVars, pageVars, dbVars, thVars>>

Frames == \E i \in 1..Len(stAnims) : updateCounter(i) /\ UNCHANGED notObserveVars

Clock == \E d \in Gaps : Elapse(d) /\ UNCHANGED <<obsVars, notObserveVars>>

ObserveNext ==
    \/ \E x \in Watched, b \in BOOLEAN : Intersection(x, b) /\ UNCHANGED notObserveVars
    \/ Frames
    \/ Clock

----------------------------------------------------------------------------
(* Specifications: one per component, the others at rest *)

InitButton ==
    HostInit /\ ButtonInit /\ ProbeIdle /\ FormIdle /\ PageIdle /\ DebounceIdle
        /\ ThrottleIdle /\ ObserveIdle

InitField ==
    HostInit /\ ButtonIdle /\ ProbeInit /\ FormIdle /\ PageIdle /\ DebounceIdle
        /\ ThrottleIdle /\ ObserveIdle

InitForm ==
    HostInit /\ ButtonIdle /\ ProbeIdle /\ FormInit /\ PageIdle /\ DebounceIdle
        /\ ThrottleIdle /\ ObserveIdle

InitPage ==
    HostInit /\ ButtonIdle /\ ProbeIdle /\ FormIdle /\ PageInit /\ DebounceIdle
        /\ ThrottleIdle /\ ObserveIdle

InitDebounce ==
    HostInit /\ ButtonIdle /\ ProbeIdle /\ FormIdle /\ PageIdle /\ DebounceInit
        /\ ThrottleIdle /\ ObserveIdle

InitThrottle ==
    HostInit /\ ButtonIdle /\ ProbeIdle /\ FormIdle /\ PageIdle /\ DebounceIdle
        /\ ThrottleInit /\ ObserveIdle

InitObserve ==
    HostInit /\ ButtonIdle /\ ProbeIdle /\ FormIdle /\ PageIdle /\ DebounceIdle
        /\ ThrottleIdle /\ ObserveInit

SpecButton == InitButton /\ [][ButtonNext]_vars

SpecField == InitField /\ [][ProbeValidate]_vars

SpecForm == InitForm /\ [][FormNext]_vars

\* the form with timers that fire when due and a clock that advances
SpecFormFair ==
    InitForm /\ [][FormNext]_vars /\ WF_vars(FormResets) /\ WF_vars(FormClock)

SpecPage == InitPage /\ [][PageNext]_vars

SpecDebounce == InitDebounce /\ [][DebounceNext]_vars

SpecThrottle == InitThrottle /\ [][ThrottleNext]_vars

\* frames keep being delivered and the clock keeps advancing
SpecObserve ==
    InitObserve /\ [][ObserveNext]_vars /\ WF_vars(Frames) /\ WF_vars(Clock)

----------------------------------------------------------------------------
(* Claims *)

\* C1: a click received while the button is loading changes neither its
\* label, nor its loading class, nor any pending restore timer, and no
\* button ever has more than one restore timer pending.
C1_ClickWhileLoadingIsNoOp ==
    /\ [][\A b \in Buttons :
            (btnLoading[b] /\ last'.kind = "click" /\ last'.id = b)
                => /\ btnHTML'[b] = btnHTML[b]
                   /\ btnLoading'[b] = btnLoading[b]
                   /\ btnTimers' = btnTimers]_vars
    /\ [](\A b \in Buttons : Len(btnTimers[b]) <= 1)

\* a click has just been handled on a button that was, and is, loading
C1_Witness ==
    /\ last.kind = "click"
    /\ last.flag
    /\ btnLoading[last.id]
    /\ Len(btnTimers[last.id]) = 1

\* C2: whatever label was captured at page-ready time (the empty one
\* included), when the restore timer fires 2000 ms after the click that
\* started loading, the button is no longer loading and shows exactly the
\* captured label, not the spinner content.
C2_LabelRestoredExactly ==
    (last.kind = "restore")
        => /\ now = btnClickAt[last.id] + 2000
           /\ ~btnLoading[last.id]
           /\ btnHTML[last.id] = originalText[last.id]
           /\ btnHTML[last.id] # Spinner

\* every field holds its default value
AtDefaults == \A f \in Fields : fldValue[f] = fldConf[f].default

\* C3: a submit with every field valid leaves a success banner in the form
\* when the handler returns, and when its reset timer fires 3000 ms later
\* the fields hold their default values and the form holds no success
\* banner, whatever was submitted or typed in between.
C3_BannerThenResetAndGone ==
    /\ (last.kind = "submit" /\ last.flag) => banners # <<>>
    /\ (last.kind = "formReset") => (AtDefaults /\ banners = <<>>)

\* every field of the form passes the checks of field validation
AllFieldsValid ==
    \A f \in Fields :
        FieldError(fldConf[f].type, fldConf[f].required, fldValue[f]) = NoError

\* C4: no submit event reaches the default submission; a submit inserts one
\* success banner and starts one reset timer if every field validates, and
\* otherwise inserts no banner, starts no timer and changes no field value.
C4_SuccessIffAllFieldsValid ==
    [][(last'.kind = "submit")
          => /\ formPosted' = formPosted
             /\ IF AllFieldsValid
                THEN /\ Len(banners') = Len(banners) + 1
                     /\ formTimers' = Append(formTimers, now + 3000)
                ELSE /\ banners' = banners
                     /\ formTimers' = formTimers
                     /\ fldValue' = fldValue]_vars

\* a submit with an invalid field has been handled: no banner, no timer
C4_Witness ==
    /\ last.kind = "submit"
    /\ ~last.flag
    /\ ~AllFieldsValid
    /\ banners = <<>>
    /\ formTimers = <<>>
    /\ \E f \in Fields : fldError[f]

\* the error-message elements created for field f, wherever they are
MessagesOf(f) ==
    {<<c, i>> \in Containers \X (1..MaxMessages + 1) :
        i <= Len(errMsgs[c]) /\ errMsgs[c][i].owner = f}

\* C5: a field carrying the "error" class has exactly one error-message
\* element of its own, and a field without the class has none, also when
\* fields share a parent element.
C5_OneMessagePerErrorField ==
    \A f \in Fields :
        Cardinality(MessagesOf(f)) = IF fldError[f] THEN 1 ELSE 0

\* C6: validating a field a second time in succession, its value unchanged,
\* changes no "error" class and no error-message element.
C6_ValidateTwiceIsValidateOnce ==
    [][(/\ last.kind = "input"
        /\ last'.kind = "input"
        /\ last'.id = last.id
        /\ fldValue' = fldValue)
          => (fldError' = fldError /\ errMsgs' = errMsgs)]_vars

\* the shape ^[^\s@]+@[^\s@]+\.[^\s@]+$ stated on positions: one "@", not
\* first, no whitespace, and a "." after the "@" that neither follows it
\* directly nor ends the string
EmailShaped(s) ==
    \E a \in 1..Len(s), d \in 1..Len(s) :
        /\ s[a] = "@"
        /\ s[d] = "."
        /\ 1 < a
        /\ a + 1 < d
        /\ d < Len(s)
        /\ \A i \in (1..Len(s)) \ {a} : s[i] \notin (WhiteSpace \cup {"@"})

\* the shape ^[+]?[1-9][0-9]{0,15}$ stated on positions
PhoneShaped(s) ==
    LET body == IF s # <<>> /\ s[1] = "+" THEN Tail(s) ELSE s
    IN  /\ Len(body) \in 1..16
        /\ body[1] \in Digit \ {"0"}
        /\ \A i \in 1..Len(body) : body[i] \in Digit

ProbeInvalid == probe.result \notin {"unset", NoError}

\* C7 as written: an email field, required or not, is reported invalid
\* exactly when its value is non-empty and does not match the email pattern.
C7_EmailInvalidIffNonEmptyMismatch ==
    (probe.type = "email" /\ probe.result # "unset")
        => (ProbeInvalid <=> (probe.value # <<>> /\ ~EmailShaped(probe.value)))

\* C7 amended: with t the trimmed value, an email field is reported invalid
\* exactly when it is required and t is empty, or t is non-empty and does
\* not match the email pattern.
C7_EmailInvalidIffRequiredOrMismatch ==
    (probe.type = "email" /\ probe.result # "unset")
        => LET t == Trim(probe.value)
           IN  ProbeInvalid <=> \/ (probe.required /\ t = <<>>)
                                \/ (t # <<>> /\ ~EmailShaped(t))

\* a required email field with an empty value has been validated and is
\* reported invalid
C7_Witness ==
    /\ probe.type = "email"
    /\ probe.required
    /\ probe.value = <<>>
    /\ probe.result = RequiredMessage

\* C8 as written: with v' the value stripped of spaces, hyphens and
\* parentheses, a tel field is reported invalid exactly when v' is non-empty
\* and does not match the phone pattern.
C8_PhoneInvalidIffStrippedMismatch ==
    (probe.type = "tel" /\ probe.result # "unset")
        => LET v == StripPhone(probe.value)
           IN  ProbeInvalid <=> (v # <<>> /\ ~PhoneShaped(v))

\* C8 amended: with t the trimmed value, a tel field is reported invalid
\* exactly when it is required and t is empty, or t is non-empty and t
\* stripped of spaces, hyphens and parentheses does not match the phone
\* pattern (so "()" is reported invalid).
C8_PhoneInvalidIffRequiredOrMismatch ==
    (probe.type = "tel" /\ probe.result # "unset")
        => LET t == Trim(probe.value)
           IN  ProbeInvalid <=> \/ (probe.required /\ t = <<>>)
                                \/ (t # <<>> /\ ~PhoneShaped(StripPhone(t)))

\* a non-required tel field holding only parentheses has been validated and
\* is reported invalid by the phone rule
C8_Witness ==
    /\ probe.type = "tel"
    /\ ~probe.required
    /\ probe.value = <<"(", ")">>
    /\ probe.result = PhoneMessage

\* C9: whichever optional elements the page lacks, no handler raises an
\* error on a scroll or click event, and the scroll behaviours of the
\* elements that exist follow the offset as usual.
C9_NoHandlerRaises ==
    /\ ~pageThrew
    /\ (last.kind = "scroll" /\ present["header"])
          => (headerScrolled <=> scrollY > 50)
    /\ (last.kind = "scroll" /\ present["backToTop"])
          => (backVisible <=> scrollY > 300)

\* func has been invoked for the k-th call of the debounced function
Invoked(k) == \E i \in 1..Len(dbInvoked) : dbInvoked[i].call = k

\* C10: at most one debounce timer is pending; func runs only wait ms after
\* a call that no other call has followed, with that call's arguments, and
\* at most once for it; a call followed by another within less than wait ms
\* never invokes func, and a call followed by none for more than wait ms
\* has invoked it (the last call has, or its timer is pending).
C10_DebounceInvokesOncePerBurst ==
    /\ Cardinality(dbTimers) <= 1
    /\ \A i \in 1..Len(dbInvoked) :
          LET v == dbInvoked[i]
          IN  /\ v.call = v.calls
              /\ v.at = dbCalls[v.call].at + dbWait
              /\ v.args = dbCalls[v.call].args
              /\ \A j \in 1..Len(dbInvoked) : dbInvoked[j].call = v.call => j = i
    /\ \A k \in 1..Len(dbCalls) :
          IF k = Len(dbCalls)
          THEN Invoked(k) \/ \E t \in dbTimers :
                                /\ t.call = k
                                /\ t.deadline = dbCalls[k].at + dbWait
                                /\ t.args = dbCalls[k].args
          ELSE /\ (dbCalls[k + 1].at < dbCalls[k].at + dbWait) => ~Invoked(k)
               /\ (dbCalls[k + 1].at > dbCalls[k].at + dbWait) => Invoked(k)

\* a burst of two calls with different arguments, less than wait ms apart,
\* has produced one invocation, with the arguments of the second call
C10_Witness ==
    /\ Len(dbCalls) = 2
    /\ dbCalls[1].at < dbCalls[2].at
    /\ dbCalls[2].at < dbCalls[1].at + dbWait
    /\ dbCalls[1].args # dbCalls[2].args
    /\ Len(dbInvoked) = 1
    /\ dbInvoked[1].args = dbCalls[2].args
    /\ dbTimers = {}

\* func has been invoked for the k-th call of the throttled function
Ran(k) == \E i \in 1..Len(thInvoked) : thInvoked[i].call = k

\* the calls before the k-th for which func was invoked
RanBefore(k) == {j \in 1..(k - 1) : Ran(j)}

\* the greatest element of a non-empty set of numbers
Latest(S) == CHOOSE j \in S : \A i \in S : i <= j

\* C11: the first call invokes func; a call less than limit ms after the
\* last invocation invokes nothing, then or later; a call more than limit
\* ms after the last invocation invokes func; every invocation happens
\* within a call, at its instant and with its arguments, at most once per
\* call; any two invocations are at least limit ms apart and at most one
\* release timer is pending.  (A call exactly limit ms after the last
\* invocation is invoked if the release timer, due at that instant, has
\* run before it.)
C11_ThrottleLeadingEdgeOnly ==
    /\ Len(thTimers) <= 1
    /\ \A k \in 1..Len(thCalls) :
          IF RanBefore(k) = {}
          THEN Ran(k)
          ELSE LET p == Latest(RanBefore(k))
               IN  /\ (thCalls[k].at < thCalls[p].at + thLimit) => ~Ran(k)
                   /\ (thCalls[k].at > thCalls[p].at + thLimit) => Ran(k)
    /\ \A i \in 1..Len(thInvoked) :
          LET v == thInvoked[i]
          IN  /\ v.call \in 1..Len(thCalls)
              /\ v.at = thCalls[v.call].at
              /\ v.args = thCalls[v.call].args
              /\ \A j \in 1..Len(thInvoked) :
                    /\ (thInvoked[j].call = v.call) => j = i
                    /\ (i < j) => thInvoked[j].at >= v.at + thLimit

\* three calls: the first invoked, the second dropped inside the limit and
\* still not invoked after the release timer has run, the third invoked more
\* than limit ms after the first
C11_Witness ==
    /\ Len(thCalls) = 3
    /\ Ran(1) /\ ~Ran(2) /\ Ran(3)
    /\ thCalls[2].at < thCalls[1].at + thLimit
    /\ thCalls[3].at > thCalls[1].at + thLimit
    /\ thCalls[2].args # thCalls[1].args
    /\ thTimers = <<>>

\* the text is a non-empty string of digits followed by a suffix without
\* digits, the digits ending at position k
DigitsUpTo(text, k) ==
    /\ k \in 1..Len(text)
    /\ \A i \in 1..Len(text) : (text[i] \in Digit) <=> i <= k

DigitsThenSuffix(text) == \E k \in 1..Len(text) : DigitsUpTo(text, k)

\* the value of the leading digits of such a text
TargetOf(text) ==
    LET k == CHOOSE j \in 1..Len(text) : DigitsUpTo(text, j)
    IN  ParseInt(SubSeq(text, 1, k))

\* the suffix of such a text
SuffixOf(text) ==
    LET k == CHOOSE j \in 1..Len(text) : DigitsUpTo(text, j)
    IN  SubSeq(text, k + 1, Len(text))

\* the number n is floor(N * min(elapsed / 2000, 1))
IsFloorOfShare(n, N, elapsed) ==
    /\ n * duration <= N * Min(elapsed, duration)
    /\ N * Min(elapsed, duration) < (n + 1) * duration

\* C12: for a statistic whose initial text is digits followed by a suffix
\* S, with N the digits' value, every text a frame writes is
\* floor(N * min(elapsed / 2000, 1)) followed by S, the number lies between
\* 0 and N and is N once elapsed is at least 2000 ms; from frame to frame
\* the numbers written never decrease.
C12_CounterInterpolates ==
    /\ [](  (DigitsThenSuffix(stInitial) /\ stNum # Unwritten)
            => /\ Len(stAnims) = 1
               /\ stNum \in 0..TargetOf(stInitial)
               /\ IsFloorOfShare(stNum, TargetOf(stInitial), stAnims[1].ran)
               /\ (stAnims[1].ran >= duration) => stNum = TargetOf(stInitial)
               /\ ParseInt(StripNonDigits(stText)) = stNum
               /\ Len(StripNonDigits(stText)) = Len(NumberToString(stNum))
               /\ stText = StripNonDigits(stText) \o SuffixOf(stInitial) )
    /\ [][ (DigitsThenSuffix(stInitial) /\ stNum # Unwritten) => stNum' >= stNum ]_vars

\* the statistic "12" has been animated past 2000 ms and shows 12
C12_Witness ==
    /\ stInitial = <<"1", "2">>
    /\ Len(stAnims) = 1
    /\ stAnims[1].ran > duration
    /\ stNum = 12
    /\ stText = <<"1", "2">>

\* what the action of the element x leaves behind
Seen(x) ==
    IF x = "card" THEN cardClass
    ELSE IF x = "img" THEN imgSrc = DataSrc /\ ~imgLazy
    ELSE Len(stAnims) >= 1

\* C13: for every observed element, the action has run exactly once if a
\* notification has reported it intersecting and not at all otherwise
\* (notifications reporting it not intersecting change nothing); the
\* element is observed until that notification and not after it; a seen
\* element stays seen, is not observed again and its action never runs
\* again.
C13_ObserversAreOneShot ==
    /\ [](\A x \in Watched :
            /\ obsFired[x] = (IF obsHits[x] >= 1 THEN 1 ELSE 0)
            /\ obsWatched[x] <=> obsHits[x] = 0
            /\ Seen(x) <=> obsFired[x] = 1
            /\ (x = "stat") => Len(stAnims) = obsFired[x])
    /\ [][\A x \in Watched :
            /\ (~last'.flag /\ last'.kind = x) => (Seen(x)' <=> Seen(x))
            /\ Seen(x) => /\ Seen(x)'
                          /\ ~obsWatched'[x]
                          /\ obsFired'[x] = obsFired[x]]_vars

\* the image has been loaded by its first intersecting notification and is
\* no longer observed, while the card, last reported as not intersecting,
\* is unseen and still observed
C13_Witness ==
    /\ obsFired["img"] = 1
    /\ imgSrc = DataSrc /\ ~imgLazy
    /\ ~obsWatched["img"]
    /\ last = Event("card", 0, FALSE)
    /\ obsWatched["card"] /\ ~cardClass

\* the frame requests outstanding
Outstanding == {i \in 1..Len(stAnims) : stAnims[i].pending}

\* the statistic is animating: started, with no frame callback run yet at
\* an elapsed time of 2000 ms or more
Animating == \E i \in 1..Len(stAnims) : stAnims[i].ran < duration

\* C17: while the statistic is animating exactly one frame request is
\* outstanding, and none once a frame callback has run with an elapsed time
\* of at least 2000 ms; with frames delivered and the clock advancing,
\* every started animation stops, whatever the parsed target.
C17_AnimationTerminates ==
    /\ [](Cardinality(Outstanding) = (IF Animating THEN 1 ELSE 0))
    /\ [](\A i \in 1..Len(stAnims) : stAnims[i].pending <=> stAnims[i].ran < duration)
    /\ (Outstanding # {}) ~> (Outstanding = {})

\* the animation of a statistic without digits has stopped on "NaN+"
C17_Witness ==
    /\ stInitial = <<"+">>
    /\ Len(stAnims) = 1
    /\ stAnims[1].end = NaN
    /\ stAnims[1].ran >= duration
    /\ ~stAnims[1].pending
    /\ stText = <<"N", "a", "N", "+">>

\* C14: with the toggle and the menu both on the page, the two carry the
\* "active" class together or not at all, and they carry it exactly when
\* the number of toggle clicks since the last menu-link click (or since
\* page-ready) is odd.
C14_NavOpenIffOddToggles ==
    NavWired =>
        /\ navActive["navToggle"] <=> navActive["navMenu"]
        /\ navActive["navMenu"] <=> (navToggles % 2 = 1)

\* the navigation has been opened, closed and opened again by the toggle
C14_Witness ==
    /\ NavWired
    /\ navToggles = 3
    /\ last.kind = "navToggle"
    /\ navActive["navToggle"] /\ navActive["navMenu"]

\* C15: in every state, the header that exists carries "scrolled" exactly
\* when the current scroll offset is above 50 and the back-to-top control
\* that exists carries "visible" exactly when it is above 300: the two
\* classes are functions of the current offset alone.
C15_ClassesFollowOffset ==
    /\ present["header"] => (headerScrolled <=> scrollY > HeaderThreshold)
    /\ present["backToTop"] => (backVisible <=> scrollY > BackToTopThreshold)

\* a scroll event has left the viewport at offset 300, between the two
\* thresholds: the header is scrolled, the back-to-top control is hidden
C15_Witness ==
    /\ present["header"] /\ present["backToTop"]
    /\ last = Event("scroll", 300, FALSE)
    /\ scrollY = 300
    /\ headerScrolled
    /\ ~backVisible

\* the fields whose current value fails field validation
InvalidFields ==
    {f \in Fields :
        FieldError(fldConf[f].type, fldConf[f].required, fldValue[f]) # NoError}

\* C16: when a submit has been handled, every field whose value fails
\* validation carries the "error" class, also those after the first one
\* that fails, every other field is without it, and the verdict was valid
\* exactly if no field fails.
C16_SubmitValidatesEveryField ==
    (last.kind = "submit") =>
        /\ \A f \in Fields : fldError[f] <=> f \in InvalidFields
        /\ last.flag <=> InvalidFields = {}

\* a submit with two invalid fields has marked both
C16_Witness ==
    /\ last.kind = "submit"
    /\ ~last.flag
    /\ Cardinality(InvalidFields) = 2
    /\ \A f \in InvalidFields : fldError[f]

C19_DecorationOnlyOnInvalidFields ==
    \A f \in Fields :
        (fldError[f] \/ MessagesOf(f) # {}) => f \in InvalidFields

====
